---------------------------- MODULE Spec2Model ----------------------------
(***************************************************************************)
(* Browser-resource lifecycle of SkillMint-server.                         *)
(*                                                                         *)
(* BrowserManager (src/services/browserManager.js) owns one shared         *)
(* Puppeteer browser; TabManager (src/unnamed/part_005, lines 470-611,     *)
(* required elsewhere as services/tabManager) keeps one page per user on   *)
(* top of it.  Both are singletons used from concurrently running async    *)
(* functions on one JavaScript event loop: code between two awaits is one  *)
(* atomic step, and every await is a point where other callers, timers and *)
(* browser events interleave.                                              *)
(***************************************************************************)
EXTENDS Integers, Sequences, FiniteSets, TLC

(* ------------------------------ bounds -------------------------------- *)

\* Launch attempts the model follows (a browser is named by its attempt).
MaxLaunches == 3

\* Pages (browser.newPage() calls) the model follows.
MaxPages == 3

\* Clock readings 0..MaxTime; one unit is an hour.
MaxTime == 2

\* Pages whose page.close() never resolves.
MaxHung == 1

(* ----------------------------- constants ------------------------------ *)

\* maxInactiveTime = 60 * 60 * 1000 ms, in hours.
maxInactiveTime == 1

\* Concurrent async callers (request handlers) of the two singletons.
Callers == {"c1", "c2"}

\* Concurrently running cleanupInactiveTabs() invocations.
Sweepers == {"s1"}

\* User ids handed to TabManager; "" stands for the falsy ids
\* ("", null, undefined), which the Map accepts as a key like any other.
UserIds == {"u1", ""}

NoBrowser == 0
NoPage == 0

\* Concurrent searchJobs() calls on the JobScraperService singleton.
Searches == {"q1", "q2"}

\* No userId: the argument of a caller that runs no tab operation.
NoUser == "none"

Browsers == 1..MaxLaunches
Pages == 1..MaxPages

VARIABLES
    \* BrowserManager fields
    browser,          \* this.browser: NoBrowser (null) or a browser
    isInitializing,   \* this.isInitializing
    \* the Chromium processes
    live,             \* browsers whose process runs and is connected
    launches,         \* launch attempts started so far
    observers,        \* browser -> 'disconnected' listeners registered on it
    \* callers
    pc,               \* caller -> position in its async function
    op,               \* caller -> the public operation it is running
    uid,              \* caller -> the userId argument
    lbrowser,         \* caller -> local `browser` / browser being closed
    lpage,            \* caller -> local `userTab.page` / `page`
    result,           \* caller -> outcome of the finished call
    joined,           \* caller -> the launch attempt that was in flight
                      \* during its initialize()/getBrowser() call (history)
    joinedRes,        \* caller -> how that attempt ended: "ok" | "fail"
    heal,             \* caller -> the dead page its getUserTab found stored
                      \* while no browser was held, else NoPage (history)
    disturbed,        \* such callers during whose call a browser
                      \* disconnected or a launch failed (history)
    \* TabManager fields
    userTabs,         \* this.userTabs: the Map, as its entries in insertion
                      \* order, each [uid, page, lastUsed]
    timerActive,      \* the setInterval of the constructor is still set
    \* the pages of the browsers
    pages,            \* pages created so far (a page is named by its number)
    openPages,        \* pages that are open in a live browser
    pageBrowser,      \* open page -> the browser that created it
    pageUser,         \* open page -> the userId it was created for
    hung,             \* open pages whose page.close() never resolves
    now,              \* Date.now()
    \* cleanupInactiveTabs() invocations
    spc,              \* sweeper -> "idle" | "closing"
    sNow,             \* sweeper -> the `now` of its latest run
    cursor,           \* sweeper -> entries its Map iterator has passed
    sUid,             \* sweeper -> userId of the closeUserTab it awaits
    sPage,            \* sweeper -> page that closeUserTab is closing
    reclaimed,        \* [uid, page] of the tabs the sweeps closed (history)
    \* the SIGTERM/SIGINT handler
    sdpc,             \* "idle" | "closingTabs" | "closingBrowser" |
                      \* "exited" | "failed"
    sdPending,        \* closeUserTab calls closeAllTabs awaits: [uid, page]
    sdBrowser,        \* browser whose close() the handler awaits
    \* startServer()
    srv,              \* "starting" | "initializing" | "listening" |
                      \* "aborted" (process.exit(1))
    \* JobScraperService of services/jobScraperService.js
    scraperBrowser,   \* this.browser: NoBrowser (null) or a browser
    browserPromise,   \* this.browserPromise is set: a launch is in flight
    scraperLive,      \* browsers it launched whose process runs
    scraperLaunches,  \* launch attempts it started so far
    qpc,              \* search -> position in searchJobs()
    qbrowser,         \* search -> local `browser` of searchJobsNaukari
    qclosing          \* search -> browser whose close() closeBrowser awaits

bmVars == <<browser, isInitializing, live, launches, observers>>
callerVars ==
    <<pc, op, uid, lbrowser, lpage, result, joined, joinedRes, heal,
      disturbed>>
pageVars == <<pages, openPages, pageBrowser, pageUser, hung>>
sweepVars == <<spc, sNow, cursor, sUid, sPage, reclaimed>>
scraperVars ==
    <<scraperBrowser, browserPromise, scraperLive, scraperLaunches, qpc,
      qbrowser, qclosing>>
sdVars == <<sdpc, sdPending, sdBrowser, srv, scraperVars>>
tmVars == <<userTabs, timerActive, pageVars, now, sweepVars, sdVars>>
vars == <<bmVars, callerVars, tmVars>>

(* ------------------------------ variants ------------------------------ *)

\* Wrong variants of definitions below; a property that is worth its name
\* fails when the definition is replaced by its variant.

\* initialize() without its isInitializing check.
LaunchNeverSeen == FALSE

\* A liveness probe that resolves on a dead page.
ProbeAlways(p) == TRUE

\* A cache hit that bumps lastUsed of every entry.
TouchAll(tabs, p, t) ==
    [i \in DOMAIN tabs |-> [tabs[i] EXCEPT !.lastUsed = t]]

\* A sweep with twice the threshold.
IsInactiveLate(lastUsed, t) == t - lastUsed > 2 * maxInactiveTime

\* close() that leaves this.browser as it finds it.
HandleKept == browser

\* A launch failure that is swallowed: initialize() resolves with null.
Swallowed(e) == [kind |-> "value", val |-> 0]

\* initialize() without its `if (this.browser)` check.
HandleNeverSeen == FALSE

\* closeUserTab that leaves the Map as it is.
KeepEntry(tabs, u) == tabs

\* Promise.all that resolves before its promises have.
JoinedEarly(pending) == TRUE

\* startServer() without its try/catch around the awaits.
AnyOutcome(r) == TRUE

(* ------------------------------ results ------------------------------- *)

\* A settled call: kind is "value" (val is what it returned) or the name of
\* the error it threw; "none" while the call has not settled.
NoResult == [kind |-> "none", val |-> 0]
Value(v) == [kind |-> "value", val |-> v]
Failure(e) == [kind |-> e, val |-> 0]

(* --------------------------- BrowserManager --------------------------- *)

\* `if (this.browser)`: a handle is held.
HasBrowser == browser # NoBrowser

\* `if (this.isInitializing)`: another caller's launch is in flight.
LaunchInFlight == isInitializing

\* A call of caller c has settled with r.
Settle(c, r) ==
    /\ pc' = [pc EXCEPT ![c] = "done"]
    /\ result' = [result EXCEPT ![c] = r]

\* The launch attempt a call of operation o is recorded to overlap.
Joins(o, attempt) ==
    IF o \in {"initialize", "getBrowser"} THEN attempt ELSE 0

\* A browser disconnects or a launch fails: the self-healing calls in
\* progress are marked.
Disturb ==
    disturbed \cup {d \in Callers : heal[d] # NoPage /\ pc[d] # "done"}

\* Launch attempt b ends with outcome r for the callers that overlap it.
Outcome(b, r) ==
    [d \in Callers |-> IF joined[d] = b THEN r ELSE joinedRes[d]]

\* getBrowser()/initialize() settles with r in caller c, which runs
\* operation o.  Inside createUserTab the caller goes on to call
\* browser.newPage() (a TypeError when r is null); a rejection passes
\* through createUserTab's catch, which rethrows.
Deliver(c, o, r) ==
    IF o \in {"getUserTab", "createUserTab"} /\ r.kind = "value"
    THEN IF r.val = NoBrowser
         THEN /\ Settle(c, Failure("TypeError"))
              /\ UNCHANGED lbrowser
         ELSE /\ pc' = [pc EXCEPT ![c] = "newPage"]
              /\ lbrowser' = [lbrowser EXCEPT ![c] = r.val]
              /\ UNCHANGED result
    ELSE /\ Settle(c, r)
         /\ UNCHANGED lbrowser

\* initialize() from its entry to its first await (or its return).
InitializeEnter(c, o) ==
    IF HasBrowser
    THEN /\ Deliver(c, o, Value(browser))
         /\ UNCHANGED <<bmVars, joined>>
    ELSE IF LaunchInFlight
    THEN /\ pc' = [pc EXCEPT ![c] = "waiting"]
         /\ joined' = [joined EXCEPT ![c] = Joins(o, launches)]
         /\ UNCHANGED <<bmVars, lbrowser, result>>
    ELSE /\ launches < MaxLaunches
         /\ isInitializing' = TRUE
         /\ launches' = launches + 1
         /\ pc' = [pc EXCEPT ![c] = "launching"]
         /\ joined' = [joined EXCEPT ![c] = Joins(o, launches + 1)]
         /\ lbrowser' = [lbrowser EXCEPT ![c] = launches + 1]
         /\ UNCHANGED <<browser, live, observers, result>>

\* getBrowser(): `if (!this.browser) return await this.initialize()`.
GetBrowserEnter(c, o) ==
    IF ~HasBrowser
    THEN InitializeEnter(c, o)
    ELSE /\ Deliver(c, o, Value(browser))
         /\ UNCHANGED <<bmVars, joined>>

\* A caller starts initialize() (the server's startup does) or getBrowser().
CallInitialize(c) ==
    /\ pc[c] = "idle"
    /\ op' = [op EXCEPT ![c] = "initialize"]
    /\ InitializeEnter(c, "initialize")
    /\ UNCHANGED <<uid, lpage, joinedRes, heal, disturbed, tmVars>>

CallGetBrowser(c) ==
    /\ pc[c] = "idle"
    /\ op' = [op EXCEPT ![c] = "getBrowser"]
    /\ GetBrowserEnter(c, "getBrowser")
    /\ UNCHANGED <<uid, lpage, joinedRes, heal, disturbed, tmVars>>

\* puppeteer.launch() resolves: the handle is stored, the 'disconnected'
\* observer registered, isInitializing cleared in the finally block.
LaunchOk(c) ==
    /\ pc[c] = "launching"
    /\ browser' = lbrowser[c]
    /\ live' = live \cup {lbrowser[c]}
    /\ joinedRes' = Outcome(lbrowser[c], "ok")
    /\ isInitializing' = FALSE
    /\ Deliver(c, op[c], Value(lbrowser[c]))
    /\ observers' = [observers EXCEPT ![lbrowser[c]] = @ + 1]
    /\ UNCHANGED <<launches, op, uid, lpage, joined, heal, disturbed,
                   tmVars>>

\* puppeteer.launch() rejects: catch clears the handle and rethrows.
LaunchFail(c) ==
    /\ pc[c] = "launching"
    /\ browser' = NoBrowser
    /\ joinedRes' = Outcome(lbrowser[c], "fail")
    /\ isInitializing' = FALSE
    /\ Deliver(c, op[c], Failure("LaunchError"))
    /\ disturbed' = Disturb
    /\ UNCHANGED <<live, launches, observers, op, uid, lpage, joined, heal,
                   tmVars>>

\* What a waiter returns once its polling loop ends: `return this.browser`.
WaiterOutcome == Value(browser)

\* The waiter wakes from its 100 ms sleep and finds isInitializing false.
WaiterWake(c) ==
    /\ pc[c] = "waiting"
    /\ ~isInitializing
    /\ Deliver(c, op[c], WaiterOutcome)
    /\ UNCHANGED <<bmVars, op, uid, lpage, joined, joinedRes, heal,
                   disturbed, tmVars>>

\* The pages of browser b.
PagesOf(b) == {p \in 1..pages : pageBrowser[p] = b}

\* What the 'disconnected' observer of b stores in this.browser:
\* `this.browser = null`, whichever browser is the current one.
AfterDisconnect(b) == NoBrowser

\* The browser process of b ends (a crash, or the kill that browser.close()
\* asked for): its pages are gone and its 'disconnected' observer runs.
Disconnect(b) ==
    /\ b \in live
    /\ live' = live \ {b}
    /\ browser' = AfterDisconnect(b)
    /\ openPages' = openPages \ PagesOf(b)
    /\ hung' = hung \ PagesOf(b)
    /\ pageBrowser' = [p \in Pages |->
                          IF pageBrowser[p] = b THEN NoBrowser
                          ELSE pageBrowser[p]]
    /\ pageUser' = [p \in Pages |->
                       IF pageBrowser[p] = b THEN NoUser ELSE pageUser[p]]
    /\ observers' = [observers EXCEPT ![b] = 0]
    /\ disturbed' = Disturb
    /\ UNCHANGED <<isInitializing, launches, pc, op, uid, lbrowser, lpage,
                   result, joined, joinedRes, heal, userTabs, timerActive,
                   pages, now, sweepVars, sdVars>>

\* close() up to `await this.browser.close()`.
CallClose(c) ==
    /\ pc[c] = "idle"
    /\ op' = [op EXCEPT ![c] = "close"]
    /\ IF HasBrowser
       THEN /\ pc' = [pc EXCEPT ![c] = "closingBrowser"]
            /\ lbrowser' = [lbrowser EXCEPT ![c] = browser]
            /\ UNCHANGED result
       ELSE /\ Settle(c, Value(NoBrowser))
            /\ UNCHANGED lbrowser
    /\ UNCHANGED <<bmVars, uid, lpage, joined, joinedRes, heal, disturbed,
                   tmVars>>

\* What close() stores in this.browser after `await this.browser.close()`.
AfterClose == NoBrowser

\* browser.close() resolves once the process is gone; `this.browser = null`.
CloseResume(c) ==
    /\ pc[c] = "closingBrowser"
    /\ lbrowser[c] \notin live
    /\ browser' = AfterClose
    /\ Settle(c, Value(NoBrowser))
    /\ UNCHANGED <<isInitializing, live, launches, observers, op, uid,
                   lbrowser, lpage,
                   joined, joinedRes, heal, disturbed, tmVars>>

\* browser.close() rejects: close() throws out of its await, and the
\* assignment after it is skipped.
CloseReject(c) ==
    /\ pc[c] = "closingBrowser"
    /\ Settle(c, Failure("CloseError"))
    /\ UNCHANGED <<bmVars, op, uid, lbrowser, lpage, joined, joinedRes, heal,
                   disturbed, tmVars>>

\* getStatus()
getStatus ==
    [isInitialized |-> browser # NoBrowser,
     isConnected |-> IF browser # NoBrowser THEN browser \in live ELSE FALSE]

\* The caller drops the settled promise and is free for its next call.
Return(c) ==
    /\ pc[c] = "done"
    /\ pc' = [pc EXCEPT ![c] = "idle"]
    /\ op' = [op EXCEPT ![c] = "none"]
    /\ uid' = [uid EXCEPT ![c] = NoUser]
    /\ lbrowser' = [lbrowser EXCEPT ![c] = NoBrowser]
    /\ lpage' = [lpage EXCEPT ![c] = NoPage]
    /\ result' = [result EXCEPT ![c] = NoResult]
    /\ joined' = [joined EXCEPT ![c] = 0]
    /\ joinedRes' = [joinedRes EXCEPT ![c] = "none"]
    /\ heal' = [heal EXCEPT ![c] = NoPage]
    /\ disturbed' = disturbed \ {c}
    /\ UNCHANGED <<bmVars, tmVars>>

(* ----------------------------- TabManager ----------------------------- *)

\* Position of the entry of key u in the Map, 0 when it has none.
IndexOf(tabs, u) ==
    IF \E i \in DOMAIN tabs : tabs[i].uid = u
    THEN CHOOSE i \in DOMAIN tabs : tabs[i].uid = u
    ELSE 0

\* Map.set: an existing key keeps its position, a new key goes last.
MapSet(tabs, u, p, t) ==
    LET e == [uid |-> u, page |-> p, lastUsed |-> t]
        i == IndexOf(tabs, u)
    IN IF i # 0 THEN [tabs EXCEPT ![i] = e] ELSE Append(tabs, e)

\* Map.delete
MapDelete(tabs, u) == SelectSeq(tabs, LAMBDA e : e.uid # u)

\* A Map iterator that has passed cur entries, after key u is deleted.
CursorAfterDelete(tabs, u, cur) ==
    IF IndexOf(tabs, u) # 0 /\ IndexOf(tabs, u) <= cur THEN cur - 1 ELSE cur

\* `userTab.lastUsed = Date.now()` on the entry object that holds page p
\* (an object no longer in the Map is updated out of sight).
Touch(tabs, p, t) ==
    [i \in DOMAIN tabs |->
        IF tabs[i].page = p THEN [tabs[i] EXCEPT !.lastUsed = t] ELSE tabs[i]]

\* userTabs.delete(u) by any code but sweeper s: the iterators move along.
CursorsAfterDelete(u) ==
    [s \in Sweepers |-> CursorAfterDelete(userTabs, u, cursor[s])]

\* createUserTab(u) from its entry to its first suspension, the Map being
\* tabs: closeUserTab(u) finds an entry and awaits page.close(), or finds
\* none and createUserTab goes on to getBrowser().
CreateUserTabEnter(c, u, tabs) ==
    IF IndexOf(tabs, u) # 0
    THEN /\ pc' = [pc EXCEPT ![c] = "closingOld"]
         /\ lpage' = [lpage EXCEPT ![c] = tabs[IndexOf(tabs, u)].page]
         /\ UNCHANGED <<bmVars, lbrowser, result, joined>>
    ELSE /\ GetBrowserEnter(c, "createUserTab")
         /\ UNCHANGED lpage

\* `if (userTab && userTab.page)`: getUserTab(u) finds an entry to probe.
FindsTab(u) == IndexOf(userTabs, u) # 0

\* The stored page of u when it is dead and no browser is held, else NoPage.
FoundDead(u) ==
    IF /\ IndexOf(userTabs, u) # 0
       /\ userTabs[IndexOf(userTabs, u)].page \notin openPages
       /\ browser = NoBrowser
    THEN userTabs[IndexOf(userTabs, u)].page
    ELSE NoPage

\* getUserTab(u) from its entry to its first await.
CallGetUserTab(c, u) ==
    /\ pc[c] = "idle"
    /\ op' = [op EXCEPT ![c] = "getUserTab"]
    /\ uid' = [uid EXCEPT ![c] = u]
    /\ IF FindsTab(u)
       THEN /\ pc' = [pc EXCEPT ![c] = "probing"]
            /\ lpage' = [lpage EXCEPT ![c] =
                            userTabs[IndexOf(userTabs, u)].page]
            /\ UNCHANGED <<bmVars, lbrowser, result, joined>>
       ELSE CreateUserTabEnter(c, u, userTabs)
    /\ heal' = [heal EXCEPT ![c] = FoundDead(u)]
    /\ UNCHANGED <<joinedRes, disturbed, tmVars>>

\* createUserTab(u) called directly (at login), to its first suspension.
CallCreateUserTab(c, u) ==
    /\ pc[c] = "idle"
    /\ op' = [op EXCEPT ![c] = "createUserTab"]
    /\ uid' = [uid EXCEPT ![c] = u]
    /\ CreateUserTabEnter(c, u, userTabs)
    /\ UNCHANGED <<joinedRes, heal, disturbed, tmVars>>

\* The liveness probe `await userTab.page.evaluate(() => true)` resolves.
ProbeAlive(p) == p \in openPages

\* Cache hit: lastUsed is bumped and the probed page returned.
ProbeOk(c) ==
    /\ pc[c] = "probing"
    /\ ProbeAlive(lpage[c])
    /\ userTabs' = Touch(userTabs, lpage[c], now)
    /\ Settle(c, Value(lpage[c]))
    /\ UNCHANGED <<bmVars, op, uid, lbrowser, lpage, joined, joinedRes,
                   heal, disturbed, timerActive, pageVars, now, sweepVars,
                   sdVars>>

\* The probe throws: the key is deleted and createUserTab(u) entered.
ProbeFail(c) ==
    /\ pc[c] = "probing"
    /\ ~ProbeAlive(lpage[c])
    /\ userTabs' = MapDelete(userTabs, uid[c])
    /\ cursor' = CursorsAfterDelete(uid[c])
    /\ CreateUserTabEnter(c, uid[c], MapDelete(userTabs, uid[c]))
    /\ UNCHANGED <<op, uid, joinedRes, heal, disturbed, timerActive,
                   pageVars, now, spc, sNow, sUid, sPage, reclaimed,
                   sdVars>>

\* The probe throws on a page that is still open but whose page.close() is
\* under way: the evaluate loses the race against the closing target.  The
\* key is deleted and createUserTab(u) entered, as for a dead page.
ProbeRace(c) ==
    /\ pc[c] = "probing"
    /\ lpage[c] \in openPages
    /\ \/ \E d \in Callers :
              pc[d] \in {"closingTab", "closingOld"} /\ lpage[d] = lpage[c]
       \/ \E s \in Sweepers : spc[s] = "closing" /\ sPage[s] = lpage[c]
       \/ \E e \in sdPending : e.page = lpage[c]
    /\ userTabs' = MapDelete(userTabs, uid[c])
    /\ cursor' = CursorsAfterDelete(uid[c])
    /\ CreateUserTabEnter(c, uid[c], MapDelete(userTabs, uid[c]))
    /\ UNCHANGED <<op, uid, joinedRes, heal, disturbed, timerActive,
                   pageVars, now, spc, sNow, sUid, sPage, reclaimed,
                   sdVars>>

\* browser.newPage() resolves with a new page of the caller's browser.
NewPageOk(c) ==
    /\ pc[c] = "newPage"
    /\ lbrowser[c] \in live
    /\ pages < MaxPages
    /\ pages' = pages + 1
    /\ openPages' = openPages \cup {pages + 1}
    /\ pageBrowser' = [pageBrowser EXCEPT ![pages + 1] = lbrowser[c]]
    /\ pageUser' = [pageUser EXCEPT ![pages + 1] = uid[c]]
    /\ lpage' = [lpage EXCEPT ![c] = pages + 1]
    /\ pc' = [pc EXCEPT ![c] = "configure"]
    /\ UNCHANGED <<bmVars, op, uid, lbrowser, result, joined, joinedRes,
                   heal, disturbed, userTabs, timerActive, hung, now,
                   sweepVars, sdVars>>

\* browser.newPage() rejects: the browser is gone.
NewPageFail(c) ==
    /\ pc[c] = "newPage"
    /\ lbrowser[c] \notin live
    /\ Settle(c, Failure("PageError"))
    /\ UNCHANGED <<bmVars, op, uid, lbrowser, lpage, joined, joinedRes,
                   heal, disturbed, tmVars>>

\* setViewport and setUserAgent resolve; the entry is stored, the page
\* returned.
StoreTab(c) ==
    /\ pc[c] = "configure"
    /\ lpage[c] \in openPages
    /\ userTabs' = MapSet(userTabs, uid[c], lpage[c], now)
    /\ Settle(c, Value(lpage[c]))
    /\ UNCHANGED <<bmVars, op, uid, lbrowser, lpage, joined, joinedRes,
                   heal, disturbed, timerActive, pageVars, now, sweepVars,
                   sdVars>>

\* setViewport or setUserAgent rejects: the page is gone.
ConfigureFail(c) ==
    /\ pc[c] = "configure"
    /\ lpage[c] \notin openPages
    /\ Settle(c, Failure("PageError"))
    /\ UNCHANGED <<bmVars, op, uid, lbrowser, lpage, joined, joinedRes,
                   heal, disturbed, tmVars>>

\* setViewport or setUserAgent rejects while the page is open (a protocol
\* error or timeout): createUserTab's catch logs and rethrows.
ConfigureReject(c) ==
    /\ pc[c] = "configure"
    /\ lpage[c] \in openPages
    /\ Settle(c, Failure("PageError"))
    /\ UNCHANGED <<bmVars, op, uid, lbrowser, lpage, joined, joinedRes,
                   heal, disturbed, tmVars>>

\* closeUserTab(u) from its entry to `await userTab.page.close()`.
CallCloseUserTab(c, u) ==
    /\ pc[c] = "idle"
    /\ op' = [op EXCEPT ![c] = "closeUserTab"]
    /\ uid' = [uid EXCEPT ![c] = u]
    /\ IF IndexOf(userTabs, u) # 0
       THEN /\ pc' = [pc EXCEPT ![c] = "closingTab"]
            /\ lpage' = [lpage EXCEPT ![c] =
                            userTabs[IndexOf(userTabs, u)].page]
            /\ UNCHANGED result
       ELSE /\ Settle(c, Value(NoPage))
            /\ UNCHANGED lpage
    /\ UNCHANGED <<bmVars, lbrowser, joined, joinedRes, heal, disturbed,
                   tmVars>>

\* page.close() of page p can settle: it resolves (the page closes) or, the
\* page being gone already, rejects; a hung close does neither.
CloseSettles(p) == p \notin hung

\* The Map after closeUserTab's page.close() settled either way:
\* `this.userTabs.delete(userId)` in the try block and in the catch block.
AfterPageClose(tabs, u) == MapDelete(tabs, u)

\* page.close() of p has settled: p is closed, if it was not already.
PageGone(p) ==
    /\ openPages' = openPages \ {p}
    /\ pageBrowser' = [q \in Pages |->
                          IF q = p THEN NoBrowser ELSE pageBrowser[q]]
    /\ pageUser' = [q \in Pages |-> IF q = p THEN NoUser ELSE pageUser[q]]

\* closeUserTab of an explicit call resumes after page.close().
CloseTabResume(c) ==
    /\ pc[c] = "closingTab"
    /\ CloseSettles(lpage[c])
    /\ PageGone(lpage[c])
    /\ userTabs' = AfterPageClose(userTabs, uid[c])
    /\ cursor' = CursorsAfterDelete(uid[c])
    /\ Settle(c, Value(NoPage))
    /\ UNCHANGED <<bmVars, op, uid, lbrowser, lpage, joined, joinedRes,
                   heal, disturbed, timerActive, pages, hung, now, spc,
                   sNow, sUid, sPage, reclaimed, sdVars>>

\* closeUserTab inside createUserTab resumes; createUserTab goes on to
\* getBrowser().
CloseOldResume(c) ==
    /\ pc[c] = "closingOld"
    /\ CloseSettles(lpage[c])
    /\ PageGone(lpage[c])
    /\ userTabs' = AfterPageClose(userTabs, uid[c])
    /\ cursor' = CursorsAfterDelete(uid[c])
    /\ GetBrowserEnter(c, "createUserTab")
    /\ UNCHANGED <<op, uid, lpage, joinedRes, heal, disturbed, timerActive,
                   pages, hung, now, spc, sNow, sUid, sPage, reclaimed,
                   sdVars>>

\* Date.now() advances.
Tick ==
    /\ now < MaxTime
    /\ now' = now + 1
    /\ UNCHANGED <<bmVars, callerVars, userTabs, timerActive, pageVars,
                   sweepVars, sdVars>>

\* `now - userTab.lastUsed > maxInactiveTime`
IsInactive(lastUsed, t) == t - lastUsed > maxInactiveTime

\* The entry at which the for-of loop of cleanupInactiveTabs next awaits
\* closeUserTab, for an iterator that has passed cur entries; 0 when the
\* loop runs to its end.
NextInactive(tabs, cur, t) ==
    LET S == {i \in DOMAIN tabs : i > cur /\ IsInactive(tabs[i].lastUsed, t)}
    IN IF S = {} THEN 0 ELSE CHOOSE i \in S : \A j \in S : i <= j

\* cleanupInactiveTabs of sweeper s runs its loop on over Map tabs, with
\* `now` t and the iterators at curs, to its next await or to its end.
SweepRun(s, tabs, curs, t) ==
    LET i == NextInactive(tabs, curs[s], t)
    IN IF i = 0
       THEN /\ spc' = [spc EXCEPT ![s] = "idle"]
            /\ sNow' = [sNow EXCEPT ![s] = t]
            /\ cursor' = [curs EXCEPT ![s] = 0]
            /\ sUid' = [sUid EXCEPT ![s] = NoUser]
            /\ sPage' = [sPage EXCEPT ![s] = NoPage]
       ELSE /\ spc' = [spc EXCEPT ![s] = "closing"]
            /\ sNow' = [sNow EXCEPT ![s] = t]
            /\ cursor' = [curs EXCEPT ![s] = i]
            /\ sUid' = [sUid EXCEPT ![s] = tabs[i].uid]
            /\ sPage' = [sPage EXCEPT ![s] = tabs[i].page]

\* The interval timer fires: cleanupInactiveTabs() starts.
SweepFire(s) ==
    /\ timerActive
    /\ spc[s] = "idle"
    /\ SweepRun(s, userTabs, cursor, now)
    /\ UNCHANGED <<bmVars, callerVars, userTabs, timerActive, pageVars, now,
                   reclaimed, sdVars>>

\* The closeUserTab the sweep awaits resumes after page.close(), and the
\* loop runs on.
SweepResume(s) ==
    /\ spc[s] = "closing"
    /\ CloseSettles(sPage[s])
    /\ PageGone(sPage[s])
    /\ userTabs' = AfterPageClose(userTabs, sUid[s])
    /\ SweepRun(s, AfterPageClose(userTabs, sUid[s]),
                CursorsAfterDelete(sUid[s]), sNow[s])
    /\ reclaimed' = reclaimed \cup {[uid |-> sUid[s], page |-> sPage[s]]}
    /\ UNCHANGED <<bmVars, callerVars, timerActive, pages, hung, now,
                   sdVars>>

\* The cleanupInactiveTabs() invocation of sweeper s is suspended for good
\* in the close of a hung page and acts no more; setInterval does not wait
\* for it, so the next firing of the timer starts a new invocation, which
\* the model runs in the same slot.
SweepRenew(s) ==
    /\ timerActive
    /\ spc[s] = "closing"
    /\ sPage[s] \in hung
    /\ spc' = [spc EXCEPT ![s] = "idle"]
    /\ cursor' = [cursor EXCEPT ![s] = 0]
    /\ sUid' = [sUid EXCEPT ![s] = NoUser]
    /\ sPage' = [sPage EXCEPT ![s] = NoPage]
    /\ UNCHANGED <<bmVars, callerVars, userTabs, timerActive, pageVars, now,
                   sNow, reclaimed, sdVars>>

\* closeAllTabs() has joined its closes: the timer is cleared, and the
\* handler goes on to browserManager.close(), up to
\* `await this.browser.close()`, or past it to process.exit().
AfterCloseAll ==
    /\ timerActive' = FALSE
    /\ IF HasBrowser
       THEN /\ sdpc' = "closingBrowser"
            /\ sdBrowser' = browser
       ELSE /\ sdpc' = "exited"
            /\ UNCHANGED sdBrowser

\* The closeUserTab calls closeAllTabs() starts: one per entry of the Map.
CloseAllStarts(tabs) ==
    {[uid |-> tabs[i].uid, page |-> tabs[i].page] : i \in DOMAIN tabs}

\* SIGTERM or SIGINT arrives: closeAllTabs() up to `await Promise.all`.
Signal ==
    /\ sdpc = "idle"
    /\ IF CloseAllStarts(userTabs) # {}
       THEN /\ sdpc' = "closingTabs"
            /\ sdPending' = CloseAllStarts(userTabs)
            /\ UNCHANGED <<timerActive, sdBrowser>>
       ELSE /\ AfterCloseAll
            /\ UNCHANGED sdPending
    /\ UNCHANGED <<bmVars, callerVars, userTabs, pageVars, now, sweepVars,
                   srv, scraperVars>>

\* Promise.all resolves when none of the closeUserTab calls is pending.
Joined(pending) == pending = {}

\* One closeUserTab of closeAllTabs() resumes after page.close().
ShutdownTabResume(e) ==
    /\ sdpc = "closingTabs"
    /\ e \in sdPending
    /\ CloseSettles(e.page)
    /\ PageGone(e.page)
    /\ userTabs' = AfterPageClose(userTabs, e.uid)
    /\ cursor' = CursorsAfterDelete(e.uid)
    /\ sdPending' = sdPending \ {e}
    /\ IF Joined(sdPending \ {e})
       THEN AfterCloseAll
       ELSE UNCHANGED <<timerActive, sdpc, sdBrowser>>
    /\ UNCHANGED <<bmVars, callerVars, pages, hung, now, spc, sNow, sUid,
                   sPage, reclaimed, srv, scraperVars>>

\* browserManager.close() of the handler resumes: `this.browser = null`,
\* then process.exit(0).
ShutdownCloseResume ==
    /\ sdpc = "closingBrowser"
    /\ sdBrowser \notin live
    /\ browser' = AfterClose
    /\ sdpc' = "exited"
    /\ UNCHANGED <<isInitializing, live, launches, observers, callerVars,
                   userTabs, timerActive, pageVars, now, sweepVars,
                   sdPending, sdBrowser, srv, scraperVars>>

\* browserManager.close() of the handler throws, browser.close() having
\* rejected: the handler's promise rejects before process.exit(0).
ShutdownCloseReject ==
    /\ sdpc = "closingBrowser"
    /\ sdpc' = "failed"
    /\ UNCHANGED <<bmVars, callerVars, userTabs, timerActive, pageVars, now,
                   sweepVars, sdPending, sdBrowser, srv, scraperVars>>

\* The caller that is startServer().
Starter == "c2"

\* `try { await browserManager.initialize(); app.listen(...) }`: the
\* await did not throw.
StartupOk(r) == r.kind = "value"

\* startServer(): the database connection fails; catch calls
\* process.exit(1).
StartConnectFail ==
    /\ srv = "starting"
    /\ srv' = "aborted"
    /\ UNCHANGED <<bmVars, callerVars, userTabs, timerActive, pageVars, now,
                   sweepVars, sdpc, sdPending, sdBrowser, scraperVars>>

\* startServer(): the database is connected and browserManager.initialize()
\* is called, up to its first await.
StartInitialize ==
    /\ srv = "starting"
    /\ pc[Starter] = "idle"
    /\ srv' = "initializing"
    /\ op' = [op EXCEPT ![Starter] = "initialize"]
    /\ InitializeEnter(Starter, "initialize")
    /\ UNCHANGED <<uid, lpage, joinedRes, heal, disturbed, userTabs,
                   timerActive, pageVars, now, sweepVars, sdpc, sdPending,
                   sdBrowser, scraperVars>>

\* startServer(): initialize() has returned; app.listen().
Listen ==
    /\ srv = "initializing"
    /\ pc[Starter] = "done"
    /\ StartupOk(result[Starter])
    /\ srv' = "listening"
    /\ UNCHANGED <<bmVars, callerVars, userTabs, timerActive, pageVars, now,
                   sweepVars, sdpc, sdPending, sdBrowser, scraperVars>>

\* startServer(): initialize() has thrown; catch calls process.exit(1).
Abort ==
    /\ srv = "initializing"
    /\ pc[Starter] = "done"
    /\ ~StartupOk(result[Starter])
    /\ srv' = "aborted"
    /\ UNCHANGED <<bmVars, callerVars, userTabs, timerActive, pageVars, now,
                   sweepVars, sdpc, sdPending, sdBrowser, scraperVars>>

\* getStats().activeTabs
activeTabs == Len(userTabs)

\* A page.close() call on p is awaited somewhere.
ClosePending(p) ==
    \/ \E c \in Callers : pc[c] \in {"closingTab", "closingOld"} /\ lpage[c] = p
    \/ \E s \in Sweepers : spc[s] = "closing" /\ sPage[s] = p
    \/ \E e \in sdPending : e.page = p

\* The page.close() of open page p hangs: it will never settle while the
\* browser lives.
Hang(p) ==
    /\ p \in openPages
    /\ ClosePending(p)
    /\ p \notin hung
    /\ Cardinality(hung) < MaxHung
    /\ hung' = hung \cup {p}
    /\ UNCHANGED <<bmVars, callerVars, userTabs, timerActive, pages,
                   openPages, pageBrowser, pageUser, now, sweepVars,
                   sdVars>>

(* ------------------------- the search request ------------------------- *)

\* Numbers of jobs a scrape on an acquired page may yield.
Scraped == {0, 1}

\* searchJobsNaukari(): the acquisition is inside the try block whose catch
\* returns []; r is the outcome of getUserTab, n the jobs a scrape yields.
searchJobsNaukari(r, n) ==
    IF r.kind = "value" THEN Value(n) ELSE Value(0)

\* searchJobs(): Promise.allSettled over the one scraper; a rejected or
\* empty result leaves allJobs empty.
searchJobs(s) ==
    IF s.kind = "value" /\ s.val > 0 THEN Value(s.val) ELSE Value(0)

\* The controller: 401 without a userId, 200 with the jobs, 500 from its
\* catch.
Respond(u, s) ==
    IF u = "" THEN 401
    ELSE IF s.kind = "value" THEN 200
    ELSE 500

\* The HTTP status of a search by user u whose acquisition ended with r.
SearchStatus(u, r, n) == Respond(u, searchJobs(searchJobsNaukari(r, n)))

(* ------------------ JobScraperService (shared browser) ----------------- *)

\* Everything outside the JobScraperService singleton.
otherVars ==
    <<bmVars, callerVars, userTabs, timerActive, pageVars, now, sweepVars,
      sdpc, sdPending, sdBrowser, srv>>

\* closeBrowser() of search q up to `await this.browser.close()`, or to its
\* return when no handle is held; searchJobs() then returns.
CloseBrowserEnter(q) ==
    IF scraperBrowser # NoBrowser
    THEN /\ qpc' = [qpc EXCEPT ![q] = "closingBrowser"]
         /\ qclosing' = [qclosing EXCEPT ![q] = scraperBrowser]
    ELSE /\ qpc' = [qpc EXCEPT ![q] = "done"]
         /\ UNCHANGED qclosing

\* searchJobs() of search q: searchJobsNaukari() calls getBrowser(), which
\* returns the handle (the search goes on to browser.newPage()), joins the
\* launch in flight, or starts one.
ScraperSearch(q) ==
    /\ qpc[q] = "idle"
    /\ IF scraperBrowser # NoBrowser
       THEN /\ qpc' = [qpc EXCEPT ![q] = "newPage"]
            /\ qbrowser' = [qbrowser EXCEPT ![q] = scraperBrowser]
            /\ UNCHANGED <<browserPromise, scraperLaunches>>
       ELSE IF browserPromise
       THEN /\ qpc' = [qpc EXCEPT ![q] = "waiting"]
            /\ UNCHANGED <<qbrowser, browserPromise, scraperLaunches>>
       ELSE /\ scraperLaunches < MaxLaunches
            /\ browserPromise' = TRUE
            /\ scraperLaunches' = scraperLaunches + 1
            /\ qpc' = [qpc EXCEPT ![q] = "launching"]
            /\ qbrowser' = [qbrowser EXCEPT ![q] = scraperLaunches + 1]
    /\ UNCHANGED <<scraperBrowser, scraperLive, qclosing, otherVars>>

\* The searches that await the launch in flight.
AwaitingLaunch == {r \in Searches : qpc[r] \in {"launching", "waiting"}}

\* puppeteer.launch() resolves: the handle is stored, browserPromise
\* cleared, and every search that awaited the promise calls newPage().
ScraperLaunchOk(q) ==
    /\ qpc[q] = "launching"
    /\ scraperBrowser' = qbrowser[q]
    /\ browserPromise' = FALSE
    /\ scraperLive' = scraperLive \cup {qbrowser[q]}
    /\ qpc' = [r \in Searches |->
                  IF r \in AwaitingLaunch THEN "newPage" ELSE qpc[r]]
    /\ qbrowser' = [r \in Searches |->
                       IF r \in AwaitingLaunch THEN qbrowser[q]
                       ELSE qbrowser[r]]
    /\ UNCHANGED <<scraperLaunches, qclosing, otherVars>>

\* puppeteer.launch() rejects: browserPromise is cleared; every search that
\* awaited it returns [] from its catch and runs closeBrowser(), which
\* finds no handle.
ScraperLaunchFail(q) ==
    /\ qpc[q] = "launching"
    /\ browserPromise' = FALSE
    /\ qpc' = [r \in Searches |->
                  IF r \in AwaitingLaunch THEN "done" ELSE qpc[r]]
    /\ qbrowser' = [r \in Searches |->
                       IF r \in AwaitingLaunch THEN NoBrowser
                       ELSE qbrowser[r]]
    /\ UNCHANGED <<scraperBrowser, scraperLive, scraperLaunches, qclosing,
                   otherVars>>

\* browser.newPage() resolves: the search scrapes on its page.
ScraperNewPageOk(q) ==
    /\ qpc[q] = "newPage"
    /\ qbrowser[q] \in scraperLive
    /\ qpc' = [qpc EXCEPT ![q] = "scraping"]
    /\ UNCHANGED <<scraperBrowser, browserPromise, scraperLive,
                   scraperLaunches, qbrowser, qclosing, otherVars>>

\* browser.newPage() rejects, the browser being gone: the catch returns [],
\* there is no page to close, and searchJobs() calls closeBrowser().
ScraperNewPageFail(q) ==
    /\ qpc[q] = "newPage"
    /\ qbrowser[q] \notin scraperLive
    /\ CloseBrowserEnter(q)
    /\ UNCHANGED <<scraperBrowser, browserPromise, scraperLive,
                   scraperLaunches, qbrowser, otherVars>>

\* The scrape ends, with jobs or in the catch: `finally { await
\* page.close() }`.
ScrapeEnd(q) ==
    /\ qpc[q] = "scraping"
    /\ qpc' = [qpc EXCEPT ![q] = "closingPage"]
    /\ UNCHANGED <<scraperBrowser, browserPromise, scraperLive,
                   scraperLaunches, qbrowser, qclosing, otherVars>>

\* page.close() settles; Promise.allSettled takes either outcome, and
\* searchJobs() calls closeBrowser().
ScraperPageClosed(q) ==
    /\ qpc[q] = "closingPage"
    /\ CloseBrowserEnter(q)
    /\ UNCHANGED <<scraperBrowser, browserPromise, scraperLive,
                   scraperLaunches, qbrowser, otherVars>>

\* The browser.close() that search q awaits ends the browser process.
ScraperBrowserEnds(q) ==
    /\ qpc[q] = "closingBrowser"
    /\ qclosing[q] \in scraperLive
    /\ scraperLive' = scraperLive \ {qclosing[q]}
    /\ UNCHANGED <<scraperBrowser, browserPromise, scraperLaunches, qpc,
                   qbrowser, qclosing, otherVars>>

\* closeBrowser() resumes: `this.browser = null`; searchJobs() returns.
CloseBrowserResume(q) ==
    /\ qpc[q] = "closingBrowser"
    /\ qclosing[q] \notin scraperLive
    /\ scraperBrowser' = NoBrowser
    /\ qpc' = [qpc EXCEPT ![q] = "done"]
    /\ UNCHANGED <<browserPromise, scraperLive, scraperLaunches, qbrowser,
                   qclosing, otherVars>>

\* The controller has answered; the search slot is free again.
ScraperReturn(q) ==
    /\ qpc[q] = "done"
    /\ qpc' = [qpc EXCEPT ![q] = "idle"]
    /\ qbrowser' = [qbrowser EXCEPT ![q] = NoBrowser]
    /\ qclosing' = [qclosing EXCEPT ![q] = NoBrowser]
    /\ UNCHANGED <<scraperBrowser, browserPromise, scraperLive,
                   scraperLaunches, otherVars>>

(* --------------------------- specifications --------------------------- *)

Init ==
    /\ browser = NoBrowser
    /\ isInitializing = FALSE
    /\ live = {}
    /\ launches = 0
    /\ observers = [b \in Browsers |-> 0]
    /\ pc = [c \in Callers |-> "idle"]
    /\ op = [c \in Callers |-> "none"]
    /\ uid = [c \in Callers |-> NoUser]
    /\ lbrowser = [c \in Callers |-> NoBrowser]
    /\ lpage = [c \in Callers |-> NoPage]
    /\ result = [c \in Callers |-> NoResult]
    /\ joined = [c \in Callers |-> 0]
    /\ joinedRes = [c \in Callers |-> "none"]
    /\ heal = [c \in Callers |-> NoPage]
    /\ disturbed = {}
    /\ userTabs = <<>>
    /\ timerActive = TRUE
    /\ pages = 0
    /\ openPages = {}
    /\ pageBrowser = [p \in Pages |-> NoBrowser]
    /\ pageUser = [p \in Pages |-> NoUser]
    /\ hung = {}
    /\ now = 0
    /\ spc = [s \in Sweepers |-> "idle"]
    /\ sNow = [s \in Sweepers |-> 0]
    /\ cursor = [s \in Sweepers |-> 0]
    /\ sUid = [s \in Sweepers |-> NoUser]
    /\ sPage = [s \in Sweepers |-> NoPage]
    /\ reclaimed = {}
    /\ sdpc = "idle"
    /\ sdPending = {}
    /\ sdBrowser = NoBrowser
    /\ srv = "starting"
    /\ scraperBrowser = NoBrowser
    /\ browserPromise = FALSE
    /\ scraperLive = {}
    /\ scraperLaunches = 0
    /\ qpc = [q \in Searches |-> "idle"]
    /\ qbrowser = [q \in Searches |-> NoBrowser]
    /\ qclosing = [q \in Searches |-> NoBrowser]

\* BrowserManager alone, driven through its public API.
NextBM ==
    \/ \E c \in Callers : CallInitialize(c)
    \/ \E c \in Callers : CallGetBrowser(c)
    \/ \E c \in Callers : LaunchOk(c)
    \/ \E c \in Callers : LaunchFail(c)
    \/ \E c \in Callers : WaiterWake(c)
    \/ \E c \in Callers : CallClose(c)
    \/ \E c \in Callers : CloseResume(c)
    \/ \E c \in Callers : CloseReject(c)
    \/ \E c \in Callers : Return(c)
    \/ \E b \in Browsers : Disconnect(b)

SpecBM == Init /\ [][NextBM]_vars

\* The tab pool under concurrent request handlers: every caller acquires
\* the tab of every user, while browsers launch, fail to launch and
\* disconnect.
Next ==
    \/ \E c \in Callers, u \in UserIds : CallGetUserTab(c, u)
    \/ \E c \in Callers : LaunchOk(c)
    \/ \E c \in Callers : LaunchFail(c)
    \/ \E c \in Callers : WaiterWake(c)
    \/ \E c \in Callers : ProbeOk(c)
    \/ \E c \in Callers : ProbeFail(c)
    \/ \E c \in Callers : NewPageOk(c)
    \/ \E c \in Callers : NewPageFail(c)
    \/ \E c \in Callers : StoreTab(c)
    \/ \E c \in Callers : ConfigureFail(c)
    \/ \E c \in Callers : Return(c)
    \/ \E b \in Browsers : Disconnect(b)

Spec == Init /\ [][Next]_vars

\* The caller that runs beside the sweep and beside the shutdown.
Handler == "c1"

\* The tab pool under its interval timer: a request handler acquires and
\* closes tabs while time passes and the sweep runs.
NextSweep ==
    \/ \E u \in UserIds : CallGetUserTab(Handler, u)
    \/ \E u \in UserIds : CallCloseUserTab(Handler, u)
    \/ LaunchOk(Handler)
    \/ LaunchFail(Handler)
    \/ ProbeOk(Handler)
    \/ ProbeFail(Handler)
    \/ NewPageOk(Handler)
    \/ NewPageFail(Handler)
    \/ StoreTab(Handler)
    \/ ConfigureFail(Handler)
    \/ CloseTabResume(Handler)
    \/ Return(Handler)
    \/ \E b \in Browsers : Disconnect(b)
    \/ \E s \in Sweepers : SweepFire(s)
    \/ \E s \in Sweepers : SweepResume(s)
    \/ Tick

SpecSweep == Init /\ [][NextSweep]_vars

\* process.exit(0) has not ended the process.
Running == sdpc # "exited"

\* The tab pool at shutdown: a request handler acquires tabs while the
\* handler of the termination signal runs.
NextShutdown ==
    \/ \E u \in UserIds : Running /\ CallGetUserTab(Handler, u)
    \/ Running /\ LaunchOk(Handler)
    \/ Running /\ LaunchFail(Handler)
    \/ Running /\ ProbeOk(Handler)
    \/ Running /\ ProbeFail(Handler)
    \/ Running /\ NewPageOk(Handler)
    \/ Running /\ NewPageFail(Handler)
    \/ Running /\ StoreTab(Handler)
    \/ Running /\ ConfigureFail(Handler)
    \/ Running /\ Return(Handler)
    \/ \E b \in Browsers : Running /\ Disconnect(b)
    \/ Running /\ Signal
    \/ \E e \in sdPending : Running /\ ShutdownTabResume(e)
    \/ Running /\ ShutdownCloseResume

SpecShutdown == Init /\ [][NextShutdown]_vars

\* page.close() resolves in the end unless it hangs, and browser.close()
\* ends the browser process.
ShutdownFairness ==
    /\ \A u \in UserIds, p \in Pages :
           WF_vars(Running /\ ShutdownTabResume([uid |-> u, page |-> p]))
    /\ WF_vars(Running /\ sdpc = "closingBrowser" /\ Disconnect(sdBrowser))
    /\ WF_vars(Running /\ ShutdownCloseResume)

\* The shutdown with closes that may hang.
NextShutdownHang ==
    \/ NextShutdown
    \/ \E p \in Pages : Running /\ Hang(p)

SpecShutdownFair ==
    Init /\ [][NextShutdownHang]_vars /\ ShutdownFairness

\* The shutdown with a browser.close() that may reject.
NextShutdownReject ==
    \/ NextShutdown
    \/ Running /\ ShutdownCloseReject

SpecShutdownReject == Init /\ [][NextShutdownReject]_vars

\* app.listen() has been called: requests reach their handlers.
Serving == srv = "listening"

\* The startup: startServer() initializes the browser and listens, and
\* after that a request handler acquires tabs while browsers disconnect.
NextStartup ==
    \/ StartConnectFail
    \/ StartInitialize
    \/ LaunchOk(Starter)
    \/ LaunchFail(Starter)
    \/ Listen
    \/ Abort
    \/ Serving /\ Return(Starter)
    \/ \E u \in UserIds : Serving /\ CallGetUserTab(Handler, u)
    \/ Serving /\ LaunchOk(Handler)
    \/ Serving /\ LaunchFail(Handler)
    \/ Serving /\ ProbeOk(Handler)
    \/ Serving /\ ProbeFail(Handler)
    \/ Serving /\ NewPageOk(Handler)
    \/ Serving /\ NewPageFail(Handler)
    \/ Serving /\ StoreTab(Handler)
    \/ Serving /\ ConfigureFail(Handler)
    \/ Serving /\ Return(Handler)
    \/ \E b \in Browsers : srv # "aborted" /\ Disconnect(b)

SpecStartup == Init /\ [][NextStartup]_vars

\* The caller that logs users out.
Closer == "c2"

\* Acquisition against logout: a handler acquires and creates tabs while
\* another closes them and browsers disconnect.
NextRace ==
    \/ \E u \in UserIds : CallGetUserTab(Handler, u)
    \/ \E u \in UserIds : CallCreateUserTab(Handler, u)
    \/ \E u \in UserIds : CallCloseUserTab(Closer, u)
    \/ LaunchOk(Handler)
    \/ LaunchFail(Handler)
    \/ ProbeOk(Handler)
    \/ ProbeFail(Handler)
    \/ ProbeRace(Handler)
    \/ NewPageOk(Handler)
    \/ NewPageFail(Handler)
    \/ StoreTab(Handler)
    \/ ConfigureFail(Handler)
    \/ CloseOldResume(Handler)
    \/ CloseTabResume(Closer)
    \/ \E c \in Callers : Return(c)
    \/ \E b \in Browsers : Disconnect(b)

SpecRace == Init /\ [][NextRace]_vars

\* The same with page configuration that may reject on an open page.
NextConfigure ==
    \/ NextRace
    \/ ConfigureReject(Handler)

SpecConfigure == Init /\ [][NextConfigure]_vars

\* The timer-driven sweeps over tabs whose close may hang, the browser
\* staying up.
NextSweepHang ==
    \/ \E u \in UserIds : CallGetUserTab(Handler, u)
    \/ LaunchOk(Handler)
    \/ LaunchFail(Handler)
    \/ ProbeOk(Handler)
    \/ NewPageOk(Handler)
    \/ StoreTab(Handler)
    \/ Return(Handler)
    \/ Tick
    \/ \E s \in Sweepers : SweepFire(s)
    \/ \E s \in Sweepers : SweepResume(s)
    \/ \E s \in Sweepers : SweepRenew(s)
    \/ \E p \in Pages : Hang(p)

\* The timer keeps firing, and a page.close() that can settle does.
SweepFairness ==
    \A s \in Sweepers :
        /\ WF_vars(SweepFire(s))
        /\ WF_vars(SweepResume(s))
        /\ WF_vars(SweepRenew(s))

SpecSweepHang == Init /\ [][NextSweepHang]_vars /\ SweepFairness

\* Overlapping searches on the shared-browser scraper.
NextScraper ==
    \/ \E q \in Searches : ScraperSearch(q)
    \/ \E q \in Searches : ScraperLaunchOk(q)
    \/ \E q \in Searches : ScraperLaunchFail(q)
    \/ \E q \in Searches : ScraperNewPageOk(q)
    \/ \E q \in Searches : ScraperNewPageFail(q)
    \/ \E q \in Searches : ScrapeEnd(q)
    \/ \E q \in Searches : ScraperPageClosed(q)
    \/ \E q \in Searches : ScraperBrowserEnds(q)
    \/ \E q \in Searches : CloseBrowserResume(q)
    \/ \E q \in Searches : ScraperReturn(q)

SpecScraper == Init /\ [][NextScraper]_vars

\* The shutdown beside the interval timer: a request handler acquires
\* tabs on a browser that stays up until the handler of the signal closes
\* it, while the sweep fires and the clock advances.
NextShutdownSweep ==
    \/ \E u \in UserIds : Running /\ CallGetUserTab(Handler, u)
    \/ Running /\ LaunchOk(Handler)
    \/ Running /\ ProbeOk(Handler)
    \/ Running /\ ProbeFail(Handler)
    \/ Running /\ NewPageOk(Handler)
    \/ Running /\ NewPageFail(Handler)
    \/ Running /\ StoreTab(Handler)
    \/ Running /\ ConfigureFail(Handler)
    \/ Running /\ Return(Handler)
    \/ Running /\ sdpc = "closingBrowser" /\ Disconnect(sdBrowser)
    \/ Running /\ Signal
    \/ \E e \in sdPending : Running /\ ShutdownTabResume(e)
    \/ Running /\ ShutdownCloseResume
    \/ \E s \in Sweepers : Running /\ SweepFire(s)
    \/ \E s \in Sweepers : Running /\ SweepResume(s)
    \/ Running /\ Tick

SpecShutdownSweep == Init /\ [][NextShutdownSweep]_vars

(* ------------------------------ claims -------------------------------- *)

\* Callers inside puppeteer.launch().
PendingLaunches == {c \in Callers : pc[c] = "launching"}

\* C1: among concurrent initialize()/getBrowser() calls at most one browser
\* launch is in flight at any time, and a caller that found a launch in
\* flight and waited for it never starts a launch of its own when it wakes.
C1_SingleLaunch ==
    /\ [](Cardinality(PendingLaunches) <= 1)
    /\ [][\A c \in Callers :
            (pc[c] = "waiting" /\ pc'[c] # "waiting")
            => launches' = launches]_vars

\* C1 witness: one caller is inside the launch while another waits for it.
C1_Witness ==
    \E c, d \in Callers : pc[c] = "launching" /\ pc[d] = "waiting"

\* C2: every initialize()/getBrowser() call that overlapped a launch ends
\* with that launch's outcome: its handle if it succeeded, the launch error
\* if it failed.
C2_Converge ==
    \A c \in Callers :
        (pc[c] = "done" /\ op[c] \in {"initialize", "getBrowser"}
            /\ joined[c] # 0)
        => /\ joinedRes[c] = "ok" => result[c] = Value(joined[c])
           /\ joinedRes[c] = "fail" => result[c] = Failure("LaunchError")

\* C3: no two pages created for the same user are open at the same time,
\* however the acquire calls for that user interleave.
C3_OneTabPerUser ==
    \A p, q \in openPages : pageUser[p] = pageUser[q] => p = q

\* C4: at most one launched browser process is live at any time.
C4_OneLiveBrowser == Cardinality(live) <= 1

\* Caller c ends, in this step, a getUserTab call that found the user's
\* stored page dead with no browser held, and during which no browser
\* disconnected and no launch failed.
HealedCall(c) ==
    /\ pc[c] # "done"
    /\ pc'[c] = "done"
    /\ op[c] = "getUserTab"
    /\ heal[c] # NoPage
    /\ c \notin disturbed'

\* C5: after a disconnect, the next getUserTab of a tracked user succeeds
\* when the relaunch succeeds: it returns a new open page, not the dead
\* one, created on the relaunched browser that BrowserManager now holds,
\* and stores it under the user's key.
C5_SelfHeal ==
    [][\A c \in Callers :
        HealedCall(c)
        => /\ result'[c].kind = "value"
           /\ result'[c].val # heal[c]
           /\ result'[c].val \in openPages'
           /\ pageBrowser'[result'[c].val] = browser'
           /\ browser' \in live'
           /\ IndexOf(userTabs', uid[c]) # 0
           /\ userTabs'[IndexOf(userTabs', uid[c])].page = result'[c].val
      ]_vars

\* C5 witness: a getUserTab call that found a dead page with no browser
\* held has returned a page, undisturbed.
C5_Witness ==
    \E c \in Callers :
        /\ pc[c] = "done"
        /\ heal[c] # NoPage
        /\ c \notin disturbed
        /\ result[c].kind = "value"
        /\ result[c].val # heal[c]

\* Caller c leaves, in this step, the liveness probe of a page that is open.
HitCall(c) ==
    /\ pc[c] = "probing"
    /\ pc'[c] # "probing"
    /\ lpage[c] \in openPages

\* C6: a getUserTab call that finds the user's entry with its page still
\* open returns that page, launches nothing, creates and closes no page,
\* and changes nothing in the Map but lastUsed of that entry, which
\* becomes the current time.
C6_Reuse ==
    [][\A c \in Callers :
        HitCall(c)
        => /\ result'[c] = Value(lpage[c])
           /\ pages' = pages
           /\ openPages' = openPages
           /\ launches' = launches
           /\ browser' = browser
           /\ DOMAIN userTabs' = DOMAIN userTabs
           /\ \A i \in DOMAIN userTabs :
                  userTabs'[i] =
                      IF userTabs[i].uid = uid[c]
                      THEN [uid |-> uid[c], page |-> lpage[c],
                            lastUsed |-> now]
                      ELSE userTabs[i]
      ]_vars

\* C6 witness: a getUserTab call returned the stored page at a later time
\* than the page was stored, touching no browser, while another user's
\* entry with an older lastUsed sits in the Map.
C6_Witness ==
    \E c \in Callers :
        /\ pc[c] = "done"
        /\ op[c] = "getUserTab"
        /\ lbrowser[c] = NoBrowser
        /\ result[c].kind = "value"
        /\ result[c].val \in openPages
        /\ now > 0
        /\ \E i, j \in DOMAIN userTabs :
               /\ userTabs[i].page = result[c].val
               /\ userTabs[i].lastUsed = now
               /\ userTabs[j].lastUsed < now

\* Sweeper s resumes, in this step, from the closeUserTab it awaited.
Reclaims(s) ==
    /\ spc[s] = "closing"
    /\ spc'[s] = "idle" \/ sPage'[s] # sPage[s]

\* C7: a sweep that has run at time sNow leaves no entry whose lastUsed is
\* older than the threshold at sNow; the tab it closes has its page closed
\* and its key removed; and a getUserTab call that returns afterwards
\* returns an open page that is none of the reclaimed ones.
C7_IdleReclamation ==
    /\ [](\A s \in Sweepers :
            spc[s] = "idle"
            => \A i \in DOMAIN userTabs :
                   ~(sNow[s] - userTabs[i].lastUsed > maxInactiveTime))
    /\ [][\A s \in Sweepers :
            Reclaims(s)
            => /\ sPage[s] \notin openPages'
               /\ IndexOf(userTabs', sUid[s]) = 0
         ]_vars
    /\ [][\A c \in Callers :
            (pc[c] # "done" /\ pc'[c] = "done" /\ op[c] = "getUserTab"
                /\ result'[c].kind = "value")
            => /\ result'[c].val \in openPages'
               /\ \A r \in reclaimed : r.page # result'[c].val
         ]_vars

\* C7 witness: the sweep closed the idle tab of a user, and a later
\* getUserTab of that user has returned another page.
C7_Witness ==
    \E c \in Callers, r \in reclaimed :
        /\ pc[c] = "done"
        /\ op[c] = "getUserTab"
        /\ uid[c] = r.uid
        /\ result[c].kind = "value"
        /\ result[c].val > r.page
        /\ r.page \notin openPages

\* C8: getUserTab with a falsy userId fails at once with an invalid-user
\* error; no page is ever created for such an id and the Map never holds
\* such a key.
C8_InvalidUserRejected ==
    /\ \A c \in Callers :
           (op[c] = "getUserTab" /\ uid[c] = "")
           => pc[c] = "done" /\ result[c].kind = "InvalidUserError"
    /\ \A p \in openPages : pageUser[p] # ""
    /\ IndexOf(userTabs, "") = 0

\* C9: once closeAllTabs() and then close() have returned in the signal
\* handler, getStats().activeTabs is 0 and getStatus().isConnected is
\* false.
C9_ShutdownComplete ==
    sdpc = "exited" => activeTabs = 0 /\ ~getStatus.isConnected

\* C10: a shutdown that has started closing the tabs goes on to
\* process.exit, even when a page.close() never resolves.
C10_ShutdownEnds == (sdpc = "closingTabs") ~> (sdpc = "exited")

\* C11: whenever BrowserManager holds a browser, the Map holds no entry
\* whose page died with an earlier browser.
C11_NoStaleEntries ==
    browser # NoBrowser
    => \A i \in DOMAIN userTabs : userTabs[i].page \in openPages

\* The puppeteer.launch() that caller c awaits rejects in this step.
LaunchFails(c) ==
    /\ pc[c] = "launching"
    /\ pc'[c] # "launching"
    /\ lbrowser[c] \notin live'

\* C12: when the launch fails, BrowserManager is back to browser = null and
\* isInitializing = false, the call that launched throws the launch error,
\* and no launch is started except by a caller entering initialize() or
\* getBrowser().
C12_LaunchFailure ==
    /\ [][\A c \in Callers :
            LaunchFails(c)
            => /\ browser' = NoBrowser
               /\ isInitializing' = FALSE
               /\ pc'[c] = "done"
               /\ result'[c] = [kind |-> "LaunchError", val |-> 0]
               /\ launches' = launches
               /\ live' = live
         ]_vars
    /\ [][launches' # launches
            => \E c \in Callers :
                   /\ pc[c] = "idle"
                   /\ pc'[c] = "launching"
                   /\ op'[c] \in {"initialize", "getBrowser"}
         ]_vars

\* C12 witness: a call has thrown the launch error, nothing is held, and a
\* later call is inside a new launch.
C12_Witness ==
    \E c, d \in Callers :
        /\ pc[c] = "done"
        /\ result[c].kind = "LaunchError"
        /\ pc[d] = "launching"
        /\ lbrowser[d] > joined[c]
        /\ browser = NoBrowser

\* Caller c makes, in this step, an initialize() or getBrowser() call while
\* a browser handle is held.
ReadyCall(c) ==
    /\ pc[c] = "idle"
    /\ pc'[c] # "idle"
    /\ op'[c] \in {"initialize", "getBrowser"}
    /\ browser # NoBrowser

\* C13: an initialize() or getBrowser() call made while a handle is held
\* returns that handle at once, starts no launch, registers no
\* 'disconnected' listener and leaves BrowserManager as it was.
C13_Idempotent ==
    [][\A c \in Callers :
        ReadyCall(c)
        => /\ pc'[c] = "done"
           /\ result'[c] = [kind |-> "value", val |-> browser]
           /\ launches' = launches
           /\ observers' = observers
           /\ browser' = browser
           /\ isInitializing' = isInitializing
           /\ live' = live
      ]_vars

\* C13 witness: both callers hold the result of a call made while the
\* browser was ready: the same handle, with its one listener, after one
\* launch.
C13_Witness ==
    /\ launches = 1
    /\ browser = 1
    /\ observers[1] = 1
    /\ \A c \in Callers :
           /\ pc[c] = "done"
           /\ op[c] \in {"initialize", "getBrowser"}
           /\ joined[c] = 0
           /\ result[c] = [kind |-> "value", val |-> 1]

\* The close() call of caller c returns, in this step, from its await.
CloseReturns(c) ==
    /\ pc[c] = "closingBrowser"
    /\ pc'[c] = "done"
    /\ result'[c].kind = "value"

\* Caller c calls close(), in this step, while no browser is held.
CloseNothing(c) ==
    /\ pc[c] = "idle"
    /\ pc'[c] # "idle"
    /\ op'[c] = "close"
    /\ browser = NoBrowser

\* C14: when close() returns, the browser it closed is gone and no handle
\* is held (getStatus() is {false, false}); a close() with no handle held
\* returns at once, closes nothing and changes nothing.
C14_Close ==
    /\ [][\A c \in Callers :
            CloseReturns(c)
            => /\ lbrowser[c] \notin live'
               /\ browser' = NoBrowser
               /\ getStatus' = [isInitialized |-> FALSE,
                                isConnected |-> FALSE]
         ]_vars
    /\ [][\A c \in Callers :
            CloseNothing(c)
            => /\ pc'[c] = "done"
               /\ result'[c].kind = "value"
               /\ live' = live
               /\ browser' = browser
               /\ launches' = launches
               /\ isInitializing' = isInitializing
         ]_vars

\* C14 witness: one close() has closed a browser and a close() made
\* afterwards, with nothing held, has returned too.
C14_Witness ==
    \E c, d \in Callers :
        /\ op[c] = "close" /\ pc[c] = "done" /\ result[c].kind = "value"
        /\ lbrowser[c] \in Browsers
        /\ op[d] = "close" /\ pc[d] = "done" /\ result[d].kind = "value"
        /\ lbrowser[d] = NoBrowser
        /\ live = {}

\* The closeUserTab call of caller c resumes, in this step, from its
\* page.close().
CloseTabReturns(c) ==
    /\ pc[c] = "closingTab"
    /\ pc'[c] # "closingTab"

\* Caller c calls closeUserTab, in this step, for a user without an entry.
CloseNoTab(c) ==
    /\ pc[c] = "idle"
    /\ pc'[c] # "idle"
    /\ op'[c] = "closeUserTab"
    /\ \A i \in DOMAIN userTabs : userTabs[i].uid # uid'[c]

\* The entries of the users other than u, in order.
OthersOf(tabs, u) ==
    [i \in 1..Cardinality({j \in DOMAIN tabs : tabs[j].uid # u}) |->
        tabs[CHOOSE k \in DOMAIN tabs :
                 /\ tabs[k].uid # u
                 /\ Cardinality({j \in 1..k : tabs[j].uid # u}) = i]]

\* C15: closeUserTab(userId) always returns normally; when the user had an
\* entry, its page is closed and the Map has no entry for the user
\* afterwards, whether page.close() resolved or threw; when the user had
\* none, nothing changes; the entries of the other users are untouched.
C15_CloseUserTab ==
    /\ [][\A c \in Callers :
            CloseTabReturns(c)
            => /\ pc'[c] = "done"
               /\ result'[c].kind = "value"
               /\ lpage[c] \notin openPages'
               /\ \A i \in DOMAIN userTabs' : userTabs'[i].uid # uid[c]
               /\ userTabs' = OthersOf(userTabs, uid[c])
               /\ openPages \ {lpage[c]} = openPages'
         ]_vars
    /\ [][\A c \in Callers :
            CloseNoTab(c)
            => /\ pc'[c] = "done"
               /\ result'[c].kind = "value"
               /\ userTabs' = userTabs
               /\ openPages' = openPages
         ]_vars
    /\ [](\A c \in Callers :
            op[c] = "closeUserTab" => result[c].kind \in {"none", "value"})

\* C15 witness: a closeUserTab of a user with an entry has returned, the
\* browser of its page being gone, and another user's entry is still in
\* the Map.
C15_Witness ==
    \E c \in Callers :
        /\ op[c] = "closeUserTab"
        /\ pc[c] = "done"
        /\ lpage[c] # NoPage
        /\ live = {}
        /\ result[c].kind = "value"
        /\ Len(userTabs) = 1
        /\ userTabs[1].uid # uid[c]

\* A closeUserTab is suspended on a page that is already gone: its
\* page.close() will throw.
C15_ThrowCase ==
    \E c \in Callers : pc[c] = "closingTab" /\ lpage[c] \notin openPages

\* C16: no error of a page.close() or a browser.close() reaches a caller of
\* closeUserTab or close(), or ends the signal handler before
\* process.exit.
C16_CloseErrorsSwallowed ==
    /\ sdpc # "failed"
    /\ \A c \in Callers : result[c].kind # "CloseError"

\* C17: a getUserTab call ends with a page, with the launch error or with
\* an invalid-user error, and with no other error.
C17_OnlyLaunchOrInvalidUser ==
    \A c \in Callers :
        (op[c] = "getUserTab" /\ pc[c] = "done")
        => result[c].kind \in {"value", "LaunchError", "InvalidUserError"}

\* closeAllTabs() has returned.
CloseAllReturned == sdpc \in {"closingBrowser", "exited", "failed"}

\* cleanupInactiveTabs() of sweeper s is started, in this step, by the
\* timer.
SweepStarts(s) ==
    /\ spc[s] = "idle"
    /\ spc'[s] = "closing" \/ sNow'[s] # sNow[s]

\* C18: closeAllTabs() starts a closeUserTab for every entry of the Map at
\* once, returns only when all of them have resumed, and has then cleared
\* the interval: the sweep starts only while the timer is set, and the
\* timer is never set again.
C18_CloseAllTabs ==
    /\ [][(sdpc = "idle" /\ sdpc' # "idle")
            => sdPending' = {[uid |-> userTabs[i].uid,
                              page |-> userTabs[i].page] :
                                 i \in DOMAIN userTabs}
         ]_vars
    /\ [][(sdpc = "closingTabs" /\ sdpc' # "closingTabs")
            => \A e \in sdPending : e.page \notin openPages'
         ]_vars
    /\ [](CloseAllReturned => ~timerActive /\ sdPending = {})
    /\ [][\A s \in Sweepers : SweepStarts(s) => timerActive]_vars
    /\ [][~timerActive => ~timerActive']_vars

\* C18 witness: closeAllTabs() has returned after joining closes, the timer
\* is cleared, and an entry stored since has been idle beyond the
\* threshold with no sweep under way.
C18_Witness ==
    /\ CloseAllReturned
    /\ ~timerActive
    /\ \A s \in Sweepers : spc[s] = "idle"
    /\ \E i \in DOMAIN userTabs :
           now - userTabs[i].lastUsed > maxInactiveTime
    /\ \E p \in 1..pages : p \notin openPages

\* C19: startup ordering.  app.listen() is called only when startServer()'s
\* own `await browserManager.initialize()` has returned a browser; when that
\* await throws, the next step of startServer() is process.exit(1); an
\* aborted startup never listens; and no request is handled before
\* app.listen().
C19_StartupOrdering ==
    /\ [][(srv # "listening" /\ srv' = "listening")
            => /\ srv = "initializing"
               /\ pc[Starter] = "done"
               /\ op[Starter] = "initialize"
               /\ result[Starter].kind = "value"
               /\ result[Starter].val \in Browsers
               /\ launches >= 1]_vars
    /\ [][(srv = "initializing" /\ pc[Starter] = "done"
             /\ result[Starter].kind # "value" /\ srv' # srv)
            => srv' = "aborted"]_vars
    /\ [][srv = "aborted" => srv' = "aborted"]_vars
    /\ [](\A c \in Callers : op[c] = "getUserTab" => srv = "listening")

\* The server listens after a successful initialize() and has served a
\* request that stored a tab.
C19_Witness ==
    /\ srv = "listening"
    /\ launches >= 1
    /\ Len(userTabs) >= 1

\* The other branch of C19: initialize() threw and the startup aborted.
C19_AbortCase ==
    /\ srv = "aborted"
    /\ result[Starter].kind \notin {"value", "none"}

\* The order of the signal handler's steps: browserManager.close() is
\* called only when closeAllTabs() has joined every close it started and
\* cleared the timer, and process.exit(0) follows only a finished close()
\* (one that found no browser finishes at once).
C20_Order ==
    /\ [][(sdpc # "closingBrowser" /\ sdpc' = "closingBrowser")
            => /\ sdpc \in {"idle", "closingTabs"}
               /\ sdPending' = {}
               /\ ~timerActive'
               /\ sdBrowser' = browser]_vars
    /\ [][(sdpc # "exited" /\ sdpc' = "exited")
            => /\ sdPending' = {}
               /\ ~timerActive'
               /\ browser' = NoBrowser
               /\ \/ sdpc = "closingBrowser" /\ sdBrowser \notin live
                  \/ sdpc \in {"idle", "closingTabs"} /\ ~HasBrowser]_vars
    /\ [][(sdpc \in {"idle", "closingTabs"} /\ sdpc' # "closingBrowser")
            => sdBrowser' = sdBrowser]_vars

\* C20: on a termination signal the handler closes all tabs, then the
\* browser, then exits, in that order, and the sequence once started comes
\* to process.exit within the grace period, whatever the closes do.
C20_ShutdownOrdering ==
    /\ C20_Order
    /\ [](sdpc \in {"closingTabs", "closingBrowser"} => <>(sdpc = "exited"))

\* An acquisition of caller c for a user the controller lets through has
\* failed.
AcquireFailed(c) ==
    /\ pc[c] = "done"
    /\ op[c] = "getUserTab"
    /\ uid[c] # ""
    /\ result[c].kind # "value"

\* C21: a search whose tab acquisition failed is answered with a 5xx.
C21_AcquireFailure5xx ==
    \A c \in Callers : AcquireFailed(c)
        => \A n \in Scraped : SearchStatus(uid[c], result[c], n) >= 500

\* Page p was created by a createUserTab that has not yet stored it.
InCreation(p) == \E c \in Callers : pc[c] = "configure" /\ lpage[c] = p

\* Page p is the one stored under the key of the user it was created for.
Stored(p) ==
    \E i \in DOMAIN userTabs :
        userTabs[i].page = p /\ userTabs[i].uid = pageUser[p]

\* C22: the Map holds at most one entry per user; a page the pool closes is
\* out of the Map in the same step (only a browser that disconnects leaves
\* entries of closed pages behind); and every open page the pool created,
\* once createUserTab is past it and unless a close of it is under way, is
\* the one stored under its user's key.
C22_OneLiveEntry ==
    /\ [](\A i, j \in DOMAIN userTabs :
              userTabs[i].uid = userTabs[j].uid => i = j)
    /\ [][\A p \in openPages \ openPages' :
              (\E i \in DOMAIN userTabs' : userTabs'[i].page = p)
                  => live' # live]_vars
    /\ [](\A p \in openPages :
              InCreation(p) \/ ClosePending(p) \/ Stored(p))

\* Entry e of the Map is not idle beyond the threshold at time t.
Fresh(e, t) == ~IsInactive(e.lastUsed, t)

\* The sweep starts closing, in this step, the tab of an entry that is
\* idle beyond the threshold at the sweep's `now`, by the entry's current
\* lastUsed.
C23_Decision ==
    [][\A s \in Sweepers :
          (spc'[s] = "closing" /\ (spc[s] = "idle" \/ sPage'[s] # sPage[s]))
          => \E i \in DOMAIN userTabs' :
                 /\ userTabs'[i].uid = sUid'[s]
                 /\ userTabs'[i].page = sPage'[s]
                 /\ IsInactive(userTabs'[i].lastUsed, sNow'[s])
                 /\ sNow'[s] <= now
      ]_vars

\* C23: a step of the sweep leaves every entry that is not idle beyond the
\* threshold as it is, with its page open if it was.
C23_SweepOnlyIdle ==
    [][\A s \in Sweepers :
          Reclaims(s)
          => \A i \in DOMAIN userTabs :
                 Fresh(userTabs[i], now)
                 => /\ \E j \in DOMAIN userTabs' : userTabs'[j] = userTabs[i]
                    /\ userTabs[i].page \in openPages
                           => userTabs[i].page \in openPages'
      ]_vars

\* Caller c resumes, in this step, from the page.close() its closeUserTab
\* awaited.
CloseResumes(c) ==
    /\ pc[c] \in {"closingTab", "closingOld"}
    /\ pc'[c] # pc[c]

\* C24: a closeUserTab that resumes from page.close() removes no entry but
\* the one that holds the page it closed, and no open page that the pool
\* has stored is missing from the Map.
C24_NoLeakUnderRace ==
    /\ [][\A c \in Callers :
             CloseResumes(c)
             => \A i \in DOMAIN userTabs :
                    userTabs[i].page # lpage[c]
                    => \E j \in DOMAIN userTabs' : userTabs'[j] = userTabs[i]
         ]_vars
    /\ [](\A p \in openPages :
              InCreation(p) \/ ClosePending(p)
                  \/ \E i \in DOMAIN userTabs : userTabs[i].page = p)

\* A getUserTab call of caller c settles, in this step, with a page.
Acquires(c) ==
    /\ pc[c] # "done"
    /\ pc'[c] = "done"
    /\ op[c] = "getUserTab"
    /\ result'[c].kind = "value"

\* C25: the page a getUserTab call returns is not one whose page.close()
\* the pool has already called.
C25_NeverReturnsClosing ==
    [][\A c \in Callers :
          Acquires(c) => ~ClosePending(result'[c].val)]_vars

\* Browser b disconnects in this step: its 'disconnected' observer runs.
Disconnects(b) == b \in live /\ b \notin live'

\* C26: the 'disconnected' observer of a browser that is not the current
\* handle leaves the current handle as it is.
C26_DisconnectOwnBrowser ==
    [][\A b \in Browsers :
          (Disconnects(b) /\ browser # b) => browser' = browser]_vars

\* A close() call of caller c returns in this step.
CloseCompletes(c) ==
    /\ op[c] = "close"
    /\ pc[c] # "done"
    /\ pc'[c] = "done"
    /\ result'[c].kind = "value"

\* C27: when close() returns, no browser is live, no handle is held and no
\* launch begun before that point is still in flight (such a launch would
\* store its browser as the current handle afterwards).
C27_CloseFinal ==
    [][\A c \in Callers :
          CloseCompletes(c)
          => /\ live' = {}
             /\ browser' = NoBrowser
             /\ ~isInitializing'
      ]_vars

\* The launch case of C27: close() has returned while a launch was in
\* flight, and that launch has stored its browser since.
C27_LaunchSurvives ==
    \E c, d \in Callers :
        /\ op[c] = "close" /\ pc[c] = "done"
        /\ op[d] = "initialize" /\ pc[d] = "done"
        /\ result[d].kind = "value"
        /\ browser = result[d].val
        /\ browser \in live
        /\ joined[d] = launches
        /\ launches = 1

\* A createUserTab (called directly or through getUserTab) of caller c
\* fails in this step after browser.newPage() had given it a page.
CreateFailsLate(c) ==
    /\ pc[c] = "configure"
    /\ pc'[c] = "done"
    /\ result'[c].kind # "value"

\* C28: when createUserTab fails after browser.newPage() succeeded, the
\* page it created is not left open.
C28_FailedCreateLeaksNothing ==
    [][\A c \in Callers :
          CreateFailsLate(c) => lpage[c] \notin openPages']_vars

\* Page p is stored in the Map under an entry that is idle beyond the
\* threshold.
IdleStored(p) ==
    \E i \in DOMAIN userTabs :
        userTabs[i].page = p /\ IsInactive(userTabs[i].lastUsed, now)

\* C29: a stored tab that is idle beyond the threshold is closed and
\* removed in the end, unless its own close hangs or its user acquires it
\* again, whatever the closes of other tabs do.
C29_SweepProgress ==
    \A p \in Pages :
        (IdleStored(p) /\ p \notin hung)
            ~> (p \notin openPages \/ p \in hung \/ ~IdleStored(p))

\* Search q holds or is about to open a page on browser b.
UsesBrowser(q, b) ==
    /\ qpc[q] \in {"newPage", "scraping", "closingPage"}
    /\ qbrowser[q] = b

\* C30: the closeBrowser() at the end of one search ends no browser that
\* another search is using.
C30_NoCloseUnderSearch ==
    [][\A b \in Browsers :
          (b \in scraperLive /\ b \notin scraperLive')
          => \A q \in Searches : ~UsesBrowser(q, b)]_vars

=============================================================================
